---- MODULE Spec2Model ----
(***************************************************************************)
(* CDC_healthdata_political_correlations.py as a state machine.            *)
(*                                                                         *)
(* The script is one linear batch run: clean the health table, aggregate   *)
(* the county votes per state, join votes and geometries onto the health   *)
(* rows, correlate every question with per_gop, sort, write the report and *)
(* plot the first entry.  Each stage is one action; pc is the position in  *)
(* the script and abortAt names the stage whose unhandled exception ended  *)
(* an aborted run.                                                         *)
(*                                                                         *)
(* Representation of values                                                *)
(*   - a float is an exact fraction <<n, d>> in lowest terms with d > 0;   *)
(*     <<0, 0>> is NaN and <<1, 0>>, <<-1, 0>> are +inf, -inf (rounding of *)
(*     IEEE doubles is not modelled);                                      *)
(*   - a correlation coefficient r is stored as the fraction sign(r)*r^2,  *)
(*     which is monotone in r, so comparisons of coefficients are exact;   *)
(*   - a text cell of the health file is a string, "" being an empty CSV   *)
(*     field (read as NaN); a DataValue cell is a sequence of characters,  *)
(*     <<>> being the empty field;                                         *)
(*   - a data frame is [index, cols]: the row labels in row order, and a   *)
(*     function from column name to the sequence of the column's cells; a  *)
(*     column that was dropped is not in DOMAIN cols.                      *)
(***************************************************************************)
EXTENDS Integers, Sequences, FiniteSets, TLC

VARIABLES
    healthfile,    \* contents of health_fp: [cols, rows], never written
    votedata,      \* contents of votes_fp: sequence of county rows, never written
    pc,            \* position in the script
    abortAt,       \* stage at which an unhandled exception ended the run, or "-"
    healthdata,    \* the health data frame: [index, cols]
    grouped,       \* state-level election rows
    voteDict,      \* state abbreviation -> <<per_dem, per_gop>>
    stateDict,     \* state abbreviation -> geometry
    QUESTIONS,     \* distinct questions, in order of first appearance
    qi,            \* index of the next question the loop processes
    CORRELATIONS,  \* result entries [question, units, correlation, sub_gdf]
    output,        \* the report file: [open, lines]
    ei,            \* index of the next entry the report loop writes
    entry,         \* the entry selected for plotting, <<>> before selection
    figure         \* the rendered map, <<>> while none is rendered

vars == <<healthfile, votedata, pc, abortAt, healthdata, grouped, voteDict,
          stateDict, QUESTIONS, qi, CORRELATIONS, output, ei, entry, figure>>

-----------------------------------------------------------------------------
(* Bounds of the explored inputs *)

MaxRows == 4

MaxCounties == 2

-----------------------------------------------------------------------------
(* Exact arithmetic standing for float64 *)

NaN == <<0, 0>>

Abs(x) == IF x < 0 THEN -x ELSE x

Sign(x) == IF x < 0 THEN -1 ELSE IF x > 0 THEN 1 ELSE 0

RECURSIVE Gcd(_, _)
Gcd(a, b) == IF b = 0 THEN Abs(a) ELSE Gcd(b, a % b)

Lcm(a, b) == (a * b) \div Gcd(a, b)

\* the float n/d: NaN for 0/0, +-inf for x/0
Float(n, d) ==
    IF d = 0 THEN <<Sign(n), 0>>
    ELSE LET g == Gcd(Abs(n), Abs(d))
             s == IF d < 0 THEN -1 ELSE 1
         IN <<(s * n) \div g, (s * d) \div g>>

IsNaN(x) == x = NaN

IsFinite(x) == x[2] # 0

FAdd(x, y) ==
    IF IsNaN(x) \/ IsNaN(y) THEN NaN
    ELSE IF ~IsFinite(x) /\ ~IsFinite(y) THEN (IF x = y THEN x ELSE NaN)
    ELSE IF ~IsFinite(x) THEN x
    ELSE IF ~IsFinite(y) THEN y
    ELSE Float(x[1] * y[2] + y[1] * x[2], x[2] * y[2])

FMul100(x) == IF IsFinite(x) THEN Float(100 * x[1], x[2]) ELSE x

\* a < b on floats: every comparison with NaN is false
IsLT(a, b) ==
    IF IsNaN(a) \/ IsNaN(b) THEN FALSE
    ELSE IF ~IsFinite(a) \/ ~IsFinite(b)
         THEN (IF ~IsFinite(a) /\ ~IsFinite(b) THEN a[1] < b[1]
               ELSE IF ~IsFinite(a) THEN a[1] < 0
               ELSE b[1] > 0)
    ELSE a[1] * b[2] < b[1] * a[2]

-----------------------------------------------------------------------------
(* Sequence helpers *)

Range(s) == {s[i] : i \in DOMAIN s}

RECURSIVE SumInt(_)
SumInt(s) == IF s = <<>> THEN 0 ELSE Head(s) + SumInt(Tail(s))

RECURSIVE SumFloat(_)
SumFloat(s) == IF s = <<>> THEN <<0, 1>> ELSE FAdd(Head(s), SumFloat(Tail(s)))

SeqsUpTo(S, n) == UNION {[1..k -> S] : k \in 1..n}

-----------------------------------------------------------------------------
(* The input files *)

Digits == {"0", "1", "2", "3", "4", "5", "6", "7", "8", "9"}

DigitValue == [c \in Digits |->
    CASE c = "0" -> 0 [] c = "1" -> 1 [] c = "2" -> 2 [] c = "3" -> 3
      [] c = "4" -> 4 [] c = "5" -> 5 [] c = "6" -> 6 [] c = "7" -> 7
      [] c = "8" -> 8 [] c = "9" -> 9]

\* the columns the later stages read
KeyColumns ==
    {"LocationAbbr", "Question", "Stratification1", "DataValue", "DataValueUnit"}

\* the initial contents of useless_cols
Denylist ==
    {"DataValueFootnoteSymbol", "TopicID", "QuestionID", "DataValueTypeID",
     "StratificationCategoryID1", "StratificationID1"}

AllColumns == KeyColumns \cup Denylist

TopicOf(q) ==
    CASE q = "Q1" -> "AST" [] q = "Q2" -> "AST" [] q = "Q3" -> "DIA"
      [] q = "Q4" -> "CVD" [] OTHER -> ""

QuestionIdOf(q) ==
    CASE q = "Q1" -> "AST1_1" [] q = "Q2" -> "AST2_1" [] q = "Q3" -> "DIA1_1"
      [] q = "Q4" -> "CVD1_1" [] OTHER -> ""

TypeIdOf(u) ==
    CASE u = "%" -> "CRDPREV" [] u = "Number" -> "NMBR" [] u = "cases" -> "NMBR"
      [] u = "per 100,000" -> "CRDRATE" [] OTHER -> ""

StratIdOf(s) ==
    CASE s = "Overall" -> "OVR" [] s = "Male" -> "GENM" [] s = "Female" -> "GENF"
      [] OTHER -> ""

StratCategoryIdOf(s) == IF s = "Overall" THEN "OVERALL" ELSE "GENDER"

\* one line of the health file; the identifier columns follow the text columns
\* as they do in the CDC data set
HealthRow(loc, q, strat, val, unit) ==
    [LocationAbbr |-> loc, Question |-> q, Stratification1 |-> strat,
     DataValue |-> val, DataValueUnit |-> unit,
     DataValueFootnoteSymbol |-> IF val = <<>> THEN "-" ELSE "",
     TopicID |-> TopicOf(q), QuestionID |-> QuestionIdOf(q),
     DataValueTypeID |-> TypeIdOf(unit),
     StratificationCategoryID1 |-> StratCategoryIdOf(strat),
     StratificationID1 |-> StratIdOf(strat)]

RowTemplates ==
    { HealthRow("A", "Q1", "Overall", <<"1", "0">>, "%"),
      HealthRow("B", "Q1", "Overall", <<"2", "0">>, "%"),
      HealthRow("B", "Q1", "Overall", <<"7", ".", "5">>, "Number"),
      HealthRow("US", "Q2", "Overall", <<"3", "0">>, ""),
      HealthRow("A", "", "Overall", <<>>, "Number"),
      HealthRow("", "Q1", "Overall", <<"n", "/", "a">>, "%") }

\* two stratified rows, as the demographic slices of the data set
StratifiedRows ==
    << HealthRow("PR", "Q3", "Female", <<"7">>, "cases"),
       HealthRow("GU", "Q4", "Male", <<"8">>, "per 100,000") >>

\* spec section 8, end-to-end scenario: A, A, B, B with 10, 20, 30, 40
ScenarioRows ==
    << HealthRow("A", "Q1", "Overall", <<"1", "0">>, "%"),
       HealthRow("A", "Q1", "Overall", <<"2", "0">>, "%"),
       HealthRow("B", "Q1", "Overall", <<"3", "0">>, "%"),
       HealthRow("B", "Q1", "Overall", <<"4", "0">>, "%") >>

\* three questions whose coefficients are met in the order +, NaN, -
ThreeQuestionRows ==
    << HealthRow("A", "Q1", "Overall", <<"1", "0">>, "%"),
       HealthRow("B", "Q1", "Overall", <<"2", "0">>, "%"),
       HealthRow("A", "Q2", "Overall", <<"3", "0">>, "Number"),
       HealthRow("A", "Q3", "Overall", <<"2", "0">>, "cases"),
       HealthRow("B", "Q3", "Overall", <<"1", "0">>, "cases") >>
    \o StratifiedRows

\* five rows of one question, one of them with a value that is no number
FiveRows ==
    << HealthRow("A", "Q1", "Overall", <<"1", "0">>, "%"),
       HealthRow("B", "Q1", "Overall", <<"2", "0">>, "%"),
       HealthRow("A", "Q1", "Overall", <<"3", "0">>, "%"),
       HealthRow("B", "Q1", "Overall", <<"n", "/", "a">>, "%"),
       HealthRow("B", "Q1", "Overall", <<"5">>, "Number") >>
    \o StratifiedRows

HealthFile(cols, rows) == [cols |-> cols, rows |-> rows]

ReferenceHealth ==
    { HealthFile(AllColumns, ScenarioRows),
      HealthFile(KeyColumns, ScenarioRows),
      HealthFile(AllColumns, ScenarioRows \o StratifiedRows),
      HealthFile(AllColumns, ThreeQuestionRows),
      HealthFile(AllColumns, FiveRows) }

HealthFiles ==
    { HealthFile(AllColumns, free \o tail) :
        free \in SeqsUpTo(RowTemplates, MaxRows), tail \in {<<>>, StratifiedRows} }
    \cup ReferenceHealth

\* one line of the election file; per_dem and per_gop are the file's own
\* county-level fractions
CountyRow(st, fips, total, dem, gop) ==
    [state_abbr |-> st, combined_fips |-> fips, total_votes |-> total,
     votes_dem |-> dem, votes_gop |-> gop,
     per_dem |-> Float(dem, total), per_gop |-> Float(gop, total)]

CountyTemplates ==
    { CountyRow("A", 1001, 100, 60, 40),
      CountyRow("A", 1003, 100, 20, 60),
      CountyRow("B", 2001, 100, 30, 70),
      CountyRow("C", 3001, 0, 0, 0),
      CountyRow("", 4001, 50, 25, 25) }

\* spec section 8, end-to-end scenario: state A 60 dem / 40 gop, state B 30 / 70
ScenarioVotes ==
    << CountyRow("A", 1001, 100, 60, 40), CountyRow("B", 2001, 100, 30, 70) >>

ReferenceVotes ==
    { ScenarioVotes,
      << CountyRow("A", 1003, 100, 20, 60), CountyRow("B", 2001, 100, 30, 70),
         CountyRow("C", 3001, 0, 0, 0) >>,
      << CountyRow("B", 2001, 100, 30, 70) >> }

VoteFiles == SeqsUpTo(CountyTemplates, MaxCounties) \cup ReferenceVotes

\* the state shapefile: STUSPS and geometry of each feature
states_gdf ==
    << [STUSPS |-> "A", geometry |-> "POLYGON A"],
       [STUSPS |-> "B", geometry |-> "POLYGON B"],
       [STUSPS |-> "PR", geometry |-> "POLYGON PR"] >>

\* the runs explored: every health file against the reference elections, and
\* every election file against the reference health files
Inputs ==
    (HealthFiles \X ReferenceVotes) \cup (ReferenceHealth \X VoteFiles)

-----------------------------------------------------------------------------
(* HEALTH DATA: load and clean *)

\* pd.read_csv: the file as a frame with the default index 0, 1, ...
ReadCsv(file) ==
    [index |-> [i \in 1..Len(file.rows) |-> i - 1],
     cols |-> [c \in file.cols |-> [i \in 1..Len(file.rows) |-> file.rows[i][c]]]]

Columns(frame) == DOMAIN frame.cols

\* len(list(healthdata[column].unique())): NaN counts as one value
NUnique(frame, column) == Cardinality(Range(frame.cols[column]))

\* useless_cols after the loop over the columns
UselessColsMutLt2(frame) ==
    Denylist \cup {c \in Columns(frame) : NUnique(frame, c) < 2}

UselessCols(frame) ==
    Denylist \cup {c \in Columns(frame) : NUnique(frame, c) < 3}

\* DataFrame.drop raises KeyError for a label that is no column
DropRaises(frame, labels) == ~(labels \subseteq Columns(frame))

Drop(frame, labels) ==
    [frame EXCEPT !.cols = [c \in Columns(frame) \ labels |-> frame.cols[c]]]

PruneColumns ==
    /\ pc = "prune"
    /\ IF DropRaises(healthdata, UselessCols(healthdata))
       THEN /\ pc' = "aborted"
            /\ abortAt' = "prune"
            /\ UNCHANGED healthdata
       ELSE /\ pc' = "coerce"
            /\ healthdata' = Drop(healthdata, UselessCols(healthdata))
            /\ UNCHANGED abortAt
    /\ UNCHANGED <<healthfile, votedata, grouped, voteDict, stateDict, QUESTIONS,
                   qi, CORRELATIONS, output, ei, entry, figure>>

\* an unsigned decimal numeral: digits with at most one "."
IsNumeral(cell) ==
    /\ \A i \in DOMAIN cell : cell[i] \in Digits \cup {"."}
    /\ \E i \in DOMAIN cell : cell[i] \in Digits
    /\ Cardinality({i \in DOMAIN cell : cell[i] = "."}) <= 1

RECURSIVE DigitsValue(_)
DigitsValue(cell) ==
    IF cell = <<>> THEN 0
    ELSE LET last == cell[Len(cell)]
             rest == SubSeq(cell, 1, Len(cell) - 1)
         IN IF last = "." THEN DigitsValue(rest)
            ELSE 10 * DigitsValue(rest) + DigitValue[last]

RECURSIVE Pow10(_)
Pow10(k) == IF k = 0 THEN 1 ELSE 10 * Pow10(k - 1)

Decimals(cell) ==
    IF \E i \in DOMAIN cell : cell[i] = "."
    THEN Len(cell) - (CHOOSE i \in DOMAIN cell : cell[i] = ".")
    ELSE 0

\* pd.to_numeric(errors="coerce") of one cell: text that is no number, and the
\* empty field, become NaN
ToNumeric(cell) ==
    IF IsNumeral(cell) THEN Float(DigitsValue(cell), Pow10(Decimals(cell)))
    ELSE NaN

CoerceDataValue ==
    /\ pc = "coerce"
    /\ IF "DataValue" \notin Columns(healthdata)
       THEN /\ pc' = "aborted"
            /\ abortAt' = "coerce"
            /\ UNCHANGED healthdata
       ELSE /\ pc' = "aggregate"
            /\ healthdata' =
                 [healthdata EXCEPT !.cols["DataValue"] =
                    [i \in DOMAIN @ |-> ToNumeric(@[i])]]
            /\ UNCHANGED abortAt
    /\ UNCHANGED <<healthfile, votedata, grouped, voteDict, stateDict, QUESTIONS,
                   qi, CORRELATIONS, output, ei, entry, figure>>

-----------------------------------------------------------------------------
(* VOTE DATA: collapse the counties of each state *)

\* every state abbreviation, in the sorted order groupby puts its groups in
StateAbbrOrder == <<"A", "B", "C">>

Col(rows, f) == [i \in DOMAIN rows |-> rows[i][f]]

\* votedata.groupby(['state_abbr'], as_index=False).sum(): one row per state
\* abbreviation, every numeric column summed; rows without an abbreviation
\* belong to no group
GroupBySum(votes) ==
    LET Present(s) == \E i \in DOMAIN votes : votes[i].state_abbr = s
        keys == SelectSeq(StateAbbrOrder, Present)
    IN [k \in 1..Len(keys) |->
          LET InGroup(r) == r.state_abbr = keys[k]
              rows == SelectSeq(votes, InGroup)
          IN [state_abbr |-> keys[k],
              combined_fips |-> SumInt(Col(rows, "combined_fips")),
              total_votes |-> SumInt(Col(rows, "total_votes")),
              votes_dem |-> SumInt(Col(rows, "votes_dem")),
              votes_gop |-> SumInt(Col(rows, "votes_gop")),
              per_dem |-> SumFloat(Col(rows, "per_dem")),
              per_gop |-> SumFloat(Col(rows, "per_gop"))]]

DropFields(row, labels) == [f \in DOMAIN row \ labels |-> row[f]]

PercentMutFraction(votes, total) == Float(votes, total)

\* (grouped['votes_x'] / grouped['total_votes']) * 100
Percent(votes, total) == FMul100(Float(votes, total))

AggregateVotes ==
    /\ pc = "aggregate"
    /\ pc' = "votedict"
    /\ grouped' =
         LET summed == GroupBySum(votedata)
         IN [i \in DOMAIN summed |->
               LET g == DropFields(summed[i], {"per_dem", "per_gop", "combined_fips"})
               IN g @@ [per_dem |-> Percent(g.votes_dem, g.total_votes),
                        per_gop |-> Percent(g.votes_gop, g.total_votes)]]
    /\ UNCHANGED <<healthfile, votedata, abortAt, healthdata, voteDict, stateDict,
                   QUESTIONS, qi, CORRELATIONS, output, ei, entry, figure>>

-----------------------------------------------------------------------------
(* ADD VOTE DATA TO HEALTH DATA *)

\* voteDict[states[i]] = (grouped["per_dem"][i], grouped["per_gop"][i])
MakeVoteDict(g) ==
    [s \in {g[i].state_abbr : i \in DOMAIN g} |->
       LET i == CHOOSE j \in DOMAIN g :
                  /\ g[j].state_abbr = s
                  /\ \A k \in DOMAIN g : g[k].state_abbr = s => k <= j
       IN <<g[i].per_dem, g[i].per_gop>>]

BuildVoteDict ==
    /\ pc = "votedict"
    /\ pc' = "votejoin"
    /\ voteDict' = MakeVoteDict(grouped)
    /\ UNCHANGED <<healthfile, votedata, abortAt, healthdata, grouped, stateDict,
                   QUESTIONS, qi, CORRELATIONS, output, ei, entry, figure>>

\* None stored in a float Series is NaN
None == NaN

\* row[column] raises KeyError when the row has no such column, dict[key]
\* when the dict has no such key; the except clause catches both
KeyErrorRaised(frame, i, dict) ==
    \/ "LocationAbbr" \notin Columns(frame)
    \/ frame.cols["LocationAbbr"][i] \notin DOMAIN dict

LookupVoteMutZero(frame, i, dict, part) ==
    IF KeyErrorRaised(frame, i, dict) THEN <<0, 1>>
    ELSE dict[frame.cols["LocationAbbr"][i]][part]

\* the body of the loop over healthdata.iterrows(), for the row at position i
LookupVote(frame, i, dict, part) ==
    IF KeyErrorRaised(frame, i, dict) THEN None
    ELSE dict[frame.cols["LocationAbbr"][i]][part]

\* pd.Series(d, index=frame.index): the values of d in the order of the index
SeriesOf(d, frame) == [i \in DOMAIN frame.index |-> d[frame.index[i]]]

\* frame.loc[:, name] = series
WithColumn(frame, name, series) ==
    [frame EXCEPT !.cols =
       [c \in Columns(frame) \cup {name} |-> IF c = name THEN series ELSE frame.cols[c]]]

Position(frame, label) == CHOOSE i \in DOMAIN frame.index : frame.index[i] = label

JoinVotes ==
    /\ pc = "votejoin"
    /\ pc' = "geojoin"
    /\ LET labels == Range(healthdata.index)
           per_dems == [l \in labels |->
                          LookupVote(healthdata, Position(healthdata, l), voteDict, 1)]
           per_gops == [l \in labels |->
                          LookupVote(healthdata, Position(healthdata, l), voteDict, 2)]
       IN healthdata' =
            WithColumn(WithColumn(healthdata, "per_dem", SeriesOf(per_dems, healthdata)),
                       "per_gop", SeriesOf(per_gops, healthdata))
    /\ UNCHANGED <<healthfile, votedata, abortAt, grouped, voteDict, stateDict,
                   QUESTIONS, qi, CORRELATIONS, output, ei, entry, figure>>

-----------------------------------------------------------------------------
(* ADD GEOMETRIES *)

\* the absent geometry
NoGeometry == "None"

\* stateDict[stateseries[i]] = shapeseries[i]
MakeStateDict(gdf) ==
    [s \in {gdf[i].STUSPS : i \in DOMAIN gdf} |->
       LET i == CHOOSE j \in DOMAIN gdf :
                  /\ gdf[j].STUSPS = s
                  /\ \A k \in DOMAIN gdf : gdf[k].STUSPS = s => k <= j
       IN gdf[i].geometry]

LookupGeometry(frame, i, dict) ==
    IF KeyErrorRaised(frame, i, dict) THEN NoGeometry
    ELSE dict[frame.cols["LocationAbbr"][i]]

JoinGeometry ==
    /\ pc = "geojoin"
    /\ pc' = "questions"
    /\ stateDict' = MakeStateDict(states_gdf)
    /\ LET labels == Range(healthdata.index)
           geometries == [l \in labels |->
                            LookupGeometry(healthdata, Position(healthdata, l),
                                           MakeStateDict(states_gdf))]
       IN healthdata' = WithColumn(healthdata, "geometry", SeriesOf(geometries, healthdata))
    /\ UNCHANGED <<healthfile, votedata, abortAt, grouped, voteDict, QUESTIONS, qi,
                   CORRELATIONS, output, ei, entry, figure>>

-----------------------------------------------------------------------------
(* PROCESS ALL QUESTIONS *)

\* Series.unique(): the distinct cells in order of first appearance
RECURSIVE Unique(_)
Unique(cells) ==
    IF cells = <<>> THEN <<>>
    ELSE LET rest == Unique(SubSeq(cells, 1, Len(cells) - 1))
             last == cells[Len(cells)]
         IN IF last \in Range(rest) THEN rest ELSE Append(rest, last)

ListQuestions ==
    /\ pc = "questions"
    /\ IF "Question" \notin Columns(healthdata)
       THEN /\ pc' = "aborted"
            /\ abortAt' = "questions"
            /\ UNCHANGED <<QUESTIONS, qi>>
       ELSE /\ pc' = "analyze"
            /\ QUESTIONS' = Unique(healthdata.cols["Question"])
            /\ qi' = 1
            /\ UNCHANGED abortAt
    /\ UNCHANGED <<healthfile, votedata, healthdata, grouped, voteDict, stateDict,
                   CORRELATIONS, output, ei, entry, figure>>

\* the positions among the first n, in order, at which a boolean mask is true
RECURSIVE TruePositions(_, _)
TruePositions(mask, n) ==
    IF n = 0 THEN <<>>
    ELSE LET before == TruePositions(mask, n - 1)
         IN IF mask[n] THEN Append(before, n) ELSE before

\* frame.loc[mask]: the rows at the given positions, labels kept
Take(frame, positions) ==
    [index |-> [k \in DOMAIN positions |-> frame.index[positions[k]]],
     cols |-> [c \in Columns(frame) |->
                 [k \in DOMAIN positions |-> frame.cols[c][positions[k]]]]]

\* frame.loc[frame[column] == value]; a missing cell equals nothing
WhereEquals(frame, column, value) ==
    LET mask == [i \in DOMAIN frame.index |->
                   /\ value # ""
                   /\ frame.cols[column][i] = value]
    IN Take(frame, TruePositions(mask, Len(mask)))

RECURSIVE LcmDenominators(_)
LcmDenominators(xs) ==
    IF xs = <<>> THEN 1 ELSE Lcm(Head(xs)[2], LcmDenominators(Tail(xs)))

RECURSIVE GcdAll(_)
GcdAll(ns) == IF ns = <<>> THEN 0 ELSE Gcd(Head(ns), GcdAll(Tail(ns)))

\* the finite floats xs as integers in their proportion
Scaled(xs) ==
    LET l == LcmDenominators(xs)
    IN [i \in DOMAIN xs |-> xs[i][1] * (l \div xs[i][2])]

\* n times the deviations from the mean, divided by their common factor;
\* all zero when the values do not vary
Deviations(ns) ==
    LET raw == [i \in DOMAIN ns |-> Len(ns) * ns[i] - SumInt(ns)]
        g == GcdAll(raw)
    IN IF g = 0 THEN raw ELSE [i \in DOMAIN raw |-> raw[i] \div g]

\* Pearson's r of paired finite floats, as sign(r) * r^2 = sign(cov) *
\* (cov / vx) * (cov / vy); NaN when either side has no variance (one pair, or
\* constant values)
Pearson(xs, ys) ==
    LET dx == Deviations(Scaled(xs))
        dy == Deviations(Scaled(ys))
        cov == SumInt([i \in DOMAIN dx |-> dx[i] * dy[i]])
        vx == SumInt([i \in DOMAIN dx |-> dx[i] * dx[i]])
        vy == SumInt([i \in DOMAIN dy |-> dy[i] * dy[i]])
        a == Float(cov, vx)
        b == Float(cov, vy)
    IN IF vx = 0 \/ vy = 0 THEN NaN
       ELSE Float(Sign(cov) * a[1] * b[1], a[2] * b[2])

ValidPairsMutFillZero(xs, ys) ==
    [i \in DOMAIN xs |->
       <<IF IsNaN(xs[i]) THEN <<0, 1>> ELSE xs[i],
         IF IsNaN(ys[i]) THEN <<0, 1>> ELSE ys[i]>>]

\* valid = notna(a) & notna(b); a = a[valid]; b = b[valid]
ValidPairs(xs, ys) ==
    LET valid == [i \in DOMAIN xs |-> ~IsNaN(xs[i]) /\ ~IsNaN(ys[i])]
        keep == TruePositions(valid, Len(valid))
    IN [k \in DOMAIN keep |-> <<xs[keep[k]], ys[keep[k]]>>]

\* Series.corr (Pearson, min_periods 1) of two columns of one frame
Corr(xs, ys) ==
    LET pairs == ValidPairs(xs, ys)
        px == [k \in DOMAIN pairs |-> pairs[k][1]]
        py == [k \in DOMAIN pairs |-> pairs[k][2]]
    IN IF Len(pairs) < 1 THEN NaN
       ELSE IF \E k \in DOMAIN pairs : ~IsFinite(px[k]) \/ ~IsFinite(py[k]) THEN NaN
       ELSE Pearson(px, py)

\* every unit string, in sorted order
UnitOrder == <<"%", "Number", "cases", "per 100,000">>

Count(cells, v) == Cardinality({i \in DOMAIN cells : cells[i] = v})

ModeMutAnyValue(cells) ==
    LET Occurs(v) == Count(cells, v) > 0
    IN SelectSeq(UnitOrder, Occurs)

\* Series.mode(): the most frequent values, missing cells left out, sorted
Mode(cells) ==
    LET IsMode(v) == /\ Count(cells, v) > 0
                     /\ \A w \in Range(UnitOrder) : Count(cells, w) <= Count(cells, v)
    IN SelectSeq(UnitOrder, IsMode)

ProcessQuestion ==
    /\ pc = "analyze"
    /\ qi <= Len(QUESTIONS)
    /\ LET question == QUESTIONS[qi]
           byQuestion == WhereEquals(healthdata, "Question", question)
       IN IF \/ "Stratification1" \notin Columns(healthdata)
             \/ "DataValueUnit" \notin Columns(healthdata)
          THEN /\ pc' = "aborted"
               /\ abortAt' = "analyze"
               /\ UNCHANGED <<qi, CORRELATIONS>>
          ELSE LET sub_gdf == WhereEquals(byQuestion, "Stratification1", "Overall")
                   correlation == Corr(sub_gdf.cols["DataValue"], sub_gdf.cols["per_gop"])
                   units_mode == Mode(sub_gdf.cols["DataValueUnit"])
               IN /\ CORRELATIONS' =
                       IF Len(units_mode) > 0
                       THEN Append(CORRELATIONS,
                                   [question |-> question, units |-> units_mode[1],
                                    correlation |-> correlation, sub_gdf |-> sub_gdf])
                       ELSE CORRELATIONS
                  /\ qi' = qi + 1
                  /\ UNCHANGED <<pc, abortAt>>
    /\ UNCHANGED <<healthfile, votedata, healthdata, grouped, voteDict, stateDict,
                   QUESTIONS, output, ei, entry, figure>>

-----------------------------------------------------------------------------
(* CORRELATIONS.sort(key=lambda x: x[2]): list.sort of a list shorter than 64 *)

Key(e) == e.correlation

\* count_run: the length of the run at the head of the list, and whether it
\* is strictly descending
RECURSIVE RunLength(_, _, _)
RunLength(list, n, descending) ==
    IF n = Len(list) THEN n
    ELSE IF descending
         THEN (IF IsLT(Key(list[n + 1]), Key(list[n]))
               THEN RunLength(list, n + 1, descending) ELSE n)
         ELSE (IF IsLT(Key(list[n + 1]), Key(list[n]))
               THEN n ELSE RunLength(list, n + 1, descending))

Reverse(list) == [i \in DOMAIN list |-> list[Len(list) + 1 - i]]

\* the slot binarysort finds for pivot in list[l..r-1] (1-based, r exclusive)
RECURSIVE BinarySlot(_, _, _, _)
BinarySlot(list, pivot, l, r) ==
    IF l >= r THEN l
    ELSE LET p == l + ((r - l) \div 2)
         IN IF IsLT(Key(pivot), Key(list[p]))
            THEN BinarySlot(list, pivot, l, p)
            ELSE BinarySlot(list, pivot, p + 1, r)

\* binarysort: insert list[start], list[start + 1], ... into the sorted head
RECURSIVE BinarySort(_, _)
BinarySort(list, start) ==
    IF start > Len(list) THEN list
    ELSE LET pivot == list[start]
             l == BinarySlot(list, pivot, 1, start)
             moved == [i \in DOMAIN list |->
                         IF i < l \/ i > start THEN list[i]
                         ELSE IF i = l THEN pivot
                         ELSE list[i - 1]]
         IN BinarySort(moved, start + 1)

ListSort(list) ==
    IF Len(list) < 2 THEN list
    ELSE LET descending == IsLT(Key(list[2]), Key(list[1]))
             n == RunLength(list, 2, descending)
             run == IF descending
                    THEN Reverse(SubSeq(list, 1, n)) \o SubSeq(list, n + 1, Len(list))
                    ELSE list
         IN BinarySort(run, n + 1)

SortCorrelations ==
    /\ pc = "analyze"
    /\ qi > Len(QUESTIONS)
    /\ pc' = "report"
    /\ CORRELATIONS' = ListSort(CORRELATIONS)
    /\ UNCHANGED <<healthfile, votedata, abortAt, healthdata, grouped, voteDict,
                   stateDict, QUESTIONS, qi, output, ei, entry, figure>>

-----------------------------------------------------------------------------
(* WRITE TO OUTPUT *)

Header ==
    "Correlation coeffecients between CDC health data questions and percentage of Republican votes on a state-by-state basis\n\n"

FieldWidth == 200

Label(e) == e.question \o " (" \o e.units \o ")"

\* one report line: the label, the number of "_" that pad it to the field
\* width, and the coefficient whose text follows
ReportLine(e) ==
    [qstring |-> Label(e),
     fill |-> IF Len(Label(e)) < FieldWidth THEN FieldWidth - Len(Label(e)) ELSE 0,
     number |-> e.correlation]

OpenReport ==
    /\ pc = "report"
    /\ pc' = "write"
    /\ output' = [open |-> TRUE, lines |-> <<Header>>]
    /\ ei' = 1
    /\ UNCHANGED <<healthfile, votedata, abortAt, healthdata, grouped, voteDict,
                   stateDict, QUESTIONS, qi, CORRELATIONS, entry, figure>>

MoreEntriesMutSkipLast(i, list) == i < Len(list)

\* for entry in CORRELATIONS
MoreEntries(i, list) == i <= Len(list)

WriteEntry ==
    /\ pc = "write"
    /\ MoreEntries(ei, CORRELATIONS)
    /\ output' = [output EXCEPT !.lines = Append(@, ReportLine(CORRELATIONS[ei]))]
    /\ ei' = ei + 1
    /\ UNCHANGED <<healthfile, votedata, pc, abortAt, healthdata, grouped, voteDict,
                   stateDict, QUESTIONS, qi, CORRELATIONS, entry, figure>>

\* the end of the with block
CloseReport ==
    /\ pc = "write"
    /\ ~MoreEntries(ei, CORRELATIONS)
    /\ pc' = "select"
    /\ output' = [output EXCEPT !.open = FALSE]
    /\ UNCHANGED <<healthfile, votedata, abortAt, healthdata, grouped, voteDict,
                   stateDict, QUESTIONS, qi, CORRELATIONS, ei, entry, figure>>

-----------------------------------------------------------------------------
(* GENERATE PLOTS *)

\* entry = CORRELATIONS[0] raises IndexError on the empty list
SelectMap ==
    /\ pc = "select"
    /\ IF Len(CORRELATIONS) = 0
       THEN /\ pc' = "aborted"
            /\ abortAt' = "select"
            /\ UNCHANGED entry
       ELSE /\ pc' = "render"
            /\ entry' = CORRELATIONS[1]
            /\ UNCHANGED abortAt
    /\ UNCHANGED <<healthfile, votedata, healthdata, grouped, voteDict, stateDict,
                   QUESTIONS, qi, CORRELATIONS, output, ei, figure>>

RenderMap ==
    /\ pc = "render"
    /\ pc' = "done"
    /\ figure' = [title |-> Label(entry), data |-> entry.sub_gdf, column |-> "DataValue"]
    /\ UNCHANGED <<healthfile, votedata, abortAt, healthdata, grouped, voteDict,
                   stateDict, QUESTIONS, qi, CORRELATIONS, output, ei, entry>>

-----------------------------------------------------------------------------
(* The run *)

Init ==
    /\ \E in \in Inputs :
         /\ healthfile = in[1]
         /\ votedata = in[2]
         /\ healthdata = ReadCsv(in[1])
    /\ pc = "prune"
    /\ abortAt = "-"
    /\ grouped = <<>>
    /\ voteDict = <<>>
    /\ stateDict = <<>>
    /\ QUESTIONS = <<>>
    /\ qi = 0
    /\ CORRELATIONS = <<>>
    /\ output = [open |-> FALSE, lines |-> <<>>]
    /\ ei = 0
    /\ entry = <<>>
    /\ figure = <<>>

Next ==
    \/ PruneColumns
    \/ CoerceDataValue
    \/ AggregateVotes
    \/ BuildVoteDict
    \/ JoinVotes
    \/ JoinGeometry
    \/ ListQuestions
    \/ ProcessQuestion
    \/ SortCorrelations
    \/ OpenReport
    \/ WriteEntry
    \/ CloseReport
    \/ SelectMap
    \/ RenderMap

Spec == Init /\ [][Next]_vars

-----------------------------------------------------------------------------
(* Stages reached, read off the state *)

PruneRan == pc # "prune" /\ abortAt # "prune"

AggregateRan == pc \notin {"prune", "coerce", "aggregate"} /\ abortAt \notin {"prune", "coerce"}

JoinRan == "per_gop" \in Columns(healthdata)

LoopDone ==
    \/ pc = "analyze" /\ qi > Len(QUESTIONS)
    \/ pc \in {"report", "write", "select", "render", "done"}
    \/ pc = "aborted" /\ abortAt = "select"

ReportDone ==
    \/ pc \in {"select", "render", "done"}
    \/ pc = "aborted" /\ abortAt = "select"

RawRows == healthfile.rows

RawLoc(i) == RawRows[i].LocationAbbr

-----------------------------------------------------------------------------
(* Claims *)

\* C1: once the vote join has run, every health row whose LocationAbbr is no
\* key of voteDict has NaN per_dem and NaN per_gop, every column still has one
\* cell per row of the health file, and no run aborts in the join.
C1_UnmatchedRowsAbsent ==
    /\ abortAt # "votejoin"
    /\ JoinRan =>
         /\ Len(healthdata.index) = Len(RawRows)
         /\ \A c \in Columns(healthdata) : Len(healthdata.cols[c]) = Len(RawRows)
         /\ \A i \in DOMAIN RawRows :
              RawLoc(i) \notin DOMAIN voteDict =>
                /\ IsNaN(healthdata.cols["per_dem"][i])
                /\ IsNaN(healthdata.cols["per_gop"][i])

\* C1 witness: the join has run on a frame that kept LocationAbbr, one row has
\* no entry in voteDict and another row received a number.
C1_Witness ==
    /\ JoinRan
    /\ "LocationAbbr" \in Columns(healthdata)
    /\ \E i \in DOMAIN RawRows : RawLoc(i) \notin DOMAIN voteDict
    /\ \E j \in DOMAIN RawRows :
         /\ RawLoc(j) \in DOMAIN voteDict
         /\ ~IsNaN(healthdata.cols["per_gop"][j])

\* C2 (as claimed): once the cleaner and the vote join have run, every health
\* row whose LocationAbbr is a state of the election aggregate carries that
\* state's per_dem and per_gop at its own position; for the two-state scenario
\* the joined per_gop column is 40, 40, 70, 70.
C2_MatchedRowsCarryVotes ==
    JoinRan =>
      /\ \A i \in DOMAIN RawRows :
           RawLoc(i) \in DOMAIN voteDict =>
             /\ healthdata.cols["per_dem"][i] = voteDict[RawLoc(i)][1]
             /\ healthdata.cols["per_gop"][i] = voteDict[RawLoc(i)][2]
      /\ (RawRows = ScenarioRows /\ votedata = ScenarioVotes) =>
           healthdata.cols["per_gop"] = << <<40, 1>>, <<40, 1>>, <<70, 1>>, <<70, 1>> >>

\* the sum of one field over the first n county rows of state s
RECURSIVE CountyTotal(_, _, _)
CountyTotal(s, field, n) ==
    IF n = 0 THEN 0
    ELSE CountyTotal(s, field, n - 1)
         + (IF votedata[n].state_abbr = s THEN votedata[n][field] ELSE 0)

\* x is the float 100 * votes / total
IsPercentOf(x, votes, total) ==
    IF total = 0 THEN x = <<Sign(votes), 0>>
    ELSE x[2] > 0 /\ x[1] * total = 100 * votes * x[2]

\* C3: once the votes are aggregated, grouped has exactly one row per distinct
\* state_abbr of the election file; its total_votes, votes_dem and votes_gop
\* are the sums over that state's county rows; its per_dem and per_gop are
\* 100 * votes / total_votes of those sums; the summed file columns per_dem,
\* per_gop and combined_fips are gone.
C3_AggregateIsSumOfCounties ==
    AggregateRan =>
      LET abbrs == {votedata[i].state_abbr : i \in DOMAIN votedata} \ {""}
          n == Len(votedata)
      IN /\ {grouped[k].state_abbr : k \in DOMAIN grouped} = abbrs
         /\ Len(grouped) = Cardinality(abbrs)
         /\ \A k \in DOMAIN grouped :
              LET g == grouped[k]
                  s == g.state_abbr
              IN /\ DOMAIN g = {"state_abbr", "total_votes", "votes_dem", "votes_gop",
                                "per_dem", "per_gop"}
                 /\ g.total_votes = CountyTotal(s, "total_votes", n)
                 /\ g.votes_dem = CountyTotal(s, "votes_dem", n)
                 /\ g.votes_gop = CountyTotal(s, "votes_gop", n)
                 /\ IsPercentOf(g.per_dem, CountyTotal(s, "votes_dem", n),
                                CountyTotal(s, "total_votes", n))
                 /\ IsPercentOf(g.per_gop, CountyTotal(s, "votes_gop", n),
                                CountyTotal(s, "total_votes", n))

\* C3 witness: a state aggregated from two counties whose file percentages
\* differ, with votes for other candidates.
C3_Witness ==
    /\ AggregateRan
    /\ \E k \in DOMAIN grouped : \E i, j \in DOMAIN votedata :
         /\ i # j
         /\ votedata[i].state_abbr = grouped[k].state_abbr
         /\ votedata[j].state_abbr = grouped[k].state_abbr
         /\ votedata[i].per_gop # votedata[j].per_gop
         /\ grouped[k].votes_dem + grouped[k].votes_gop < grouped[k].total_votes
         /\ grouped[k].total_votes = votedata[i].total_votes + votedata[j].total_votes

\* the number of distinct cells of a column of the health file, the empty
\* field counted as one value
RawDistinct(c) == Cardinality({RawRows[i][c] : i \in DOMAIN RawRows})

\* C4 (as claimed): once pruning has run, a column of the health file is in
\* the cleaned frame exactly when it has 3 or more distinct values.
C4_KeptIffThreeDistinct ==
    PruneRan =>
      \A c \in healthfile.cols :
        /\ RawDistinct(c) < 3 => c \notin Columns(healthdata)
        /\ RawDistinct(c) >= 3 => c \in Columns(healthdata)

\* C4 (amended): once pruning has run, a column of the health file is in the
\* cleaned frame exactly when it has 3 or more distinct values and is not on
\* the denylist.
C4_KeptIffThreeDistinctAndNotDenylisted ==
    PruneRan =>
      \A c \in healthfile.cols :
        c \in Columns(healthdata) <=> (RawDistinct(c) >= 3 /\ c \notin Denylist)

\* C4 witness: pruning dropped a denylist column with 3 or more distinct
\* values and a column with fewer than 3, and kept another column.
C4_Witness ==
    /\ PruneRan
    /\ \E c \in Denylist \cap healthfile.cols : RawDistinct(c) >= 3
    /\ \E c \in healthfile.cols \ Denylist :
         RawDistinct(c) < 3 /\ c \notin Columns(healthdata)
    /\ \E c \in healthfile.cols : c \in Columns(healthdata)

\* C5 (as claimed): in the written report, of two lines with defined
\* coefficients the one with the smaller coefficient comes first, whatever
\* other coefficients are NaN.
C5_ReportAscending ==
    ReportDone =>
      \A i, j \in 2..Len(output.lines) :
        IsLT(output.lines[i].number, output.lines[j].number) => i < j

\* a question qualifies when one of its "Overall" rows carries a unit
Qualifies(q) ==
    /\ q # ""
    /\ \E i \in DOMAIN RawRows :
         /\ RawRows[i].Question = q
         /\ RawRows[i].Stratification1 = "Overall"
         /\ RawRows[i].DataValueUnit # ""

\* how many "Overall" rows of question q carry unit u
UnitCount(q, u) ==
    Cardinality({i \in DOMAIN RawRows :
                   /\ RawRows[i].Question = q
                   /\ RawRows[i].Stratification1 = "Overall"
                   /\ RawRows[i].DataValueUnit = u})

\* C6: after the loop over the questions, CORRELATIONS holds exactly one entry
\* for each question that has an "Overall" row carrying a unit and none for
\* any other question; the unit of an entry is one no other unit outnumbers
\* among the question's "Overall" rows; the loop aborts only when the
\* Stratification1 or DataValueUnit column was pruned, never for a question
\* without qualifying rows.
C6_ResultMembership ==
    /\ (pc = "aborted" /\ abortAt = "analyze") =>
         \/ "Stratification1" \notin Columns(healthdata)
         \/ "DataValueUnit" \notin Columns(healthdata)
    /\ LoopDone =>
         /\ {CORRELATIONS[k].question : k \in DOMAIN CORRELATIONS}
              = {q \in {RawRows[i].Question : i \in DOMAIN RawRows} : Qualifies(q)}
         /\ \A k, l \in DOMAIN CORRELATIONS :
              CORRELATIONS[k].question = CORRELATIONS[l].question => k = l
         /\ \A k \in DOMAIN CORRELATIONS :
              LET e == CORRELATIONS[k]
              IN /\ UnitCount(e.question, e.units) > 0
                 /\ \A i \in DOMAIN RawRows :
                      RawRows[i].DataValueUnit # "" =>
                        UnitCount(e.question, RawRows[i].DataValueUnit)
                          <= UnitCount(e.question, e.units)

\* C6 witness: the loop has finished, one question with an "Overall" row was
\* skipped for want of a unit, and one entry's unit outnumbers another unit
\* of the same question.
C6_Witness ==
    /\ LoopDone
    /\ \E i \in DOMAIN RawRows :
         /\ RawRows[i].Stratification1 = "Overall"
         /\ RawRows[i].Question # ""
         /\ ~Qualifies(RawRows[i].Question)
    /\ \E k \in DOMAIN CORRELATIONS : \E i \in DOMAIN RawRows :
         /\ RawRows[i].DataValueUnit # ""
         /\ UnitCount(CORRELATIONS[k].question, RawRows[i].DataValueUnit) > 0
         /\ UnitCount(CORRELATIONS[k].question, RawRows[i].DataValueUnit)
              < UnitCount(CORRELATIONS[k].question, CORRELATIONS[k].units)

\* C7 (as claimed): the map is drawn for the first entry of the sorted list,
\* titled with its question and unit and showing its subset, and no result
\* has a defined coefficient strictly smaller than the one drawn.
C7_MapIsLowest ==
    pc = "done" =>
      /\ figure.title = Label(CORRELATIONS[1])
      /\ figure.data = CORRELATIONS[1].sub_gdf
      /\ \A k \in DOMAIN CORRELATIONS :
           ~IsLT(CORRELATIONS[k].correlation, entry.correlation)

\* the positions of the "Overall" rows of question q whose DataValue text is
\* a number and whose joined per_gop is present
RECURSIVE CompleteRows(_, _)
CompleteRows(q, n) ==
    IF n = 0 THEN <<>>
    ELSE LET before == CompleteRows(q, n - 1)
         IN IF /\ RawRows[n].Question = q
               /\ RawRows[n].Stratification1 = "Overall"
               /\ IsNumeral(RawRows[n].DataValue)
               /\ ~IsNaN(healthdata.cols["per_gop"][n])
            THEN Append(before, n) ELSE before

\* Pearson's r over the complete rows alone
CompleteCorrelation(q) ==
    LET rows == CompleteRows(q, Len(RawRows))
        xs == [k \in DOMAIN rows |-> ToNumeric(RawRows[rows[k]].DataValue)]
        ys == [k \in DOMAIN rows |-> healthdata.cols["per_gop"][rows[k]]]
    IN IF rows = <<>> THEN NaN ELSE Pearson(xs, ys)

\* C8: the coefficient of every entry is Pearson's r over those "Overall"
\* rows of its question in which the DataValue text is a number and per_gop is
\* present; rows with an unparsable or empty DataValue or an absent per_gop
\* contribute nothing.
C8_PairwiseComplete ==
    LoopDone =>
      \A k \in DOMAIN CORRELATIONS :
        CORRELATIONS[k].correlation = CompleteCorrelation(CORRELATIONS[k].question)

\* C8 witness: an entry computed from 5 filtered rows of which exactly 4 are
\* complete pairs, with a defined coefficient.
C8_Witness ==
    /\ LoopDone
    /\ \E k \in DOMAIN CORRELATIONS :
         /\ Len(CORRELATIONS[k].sub_gdf.index) = 5
         /\ Len(CompleteRows(CORRELATIONS[k].question, Len(RawRows))) = 4
         /\ ~IsNaN(CORRELATIONS[k].correlation)

\* C9 (as claimed): once pruning has run, each of LocationAbbr, Question,
\* Stratification1, DataValue and DataValueUnit that the health file has is
\* still a column, and a joined row has absent per_dem and per_gop only when
\* its LocationAbbr is no state of the election aggregate.
C9_KeyColumnsSurvivePruning ==
    /\ PruneRan => \A c \in KeyColumns \cap healthfile.cols : c \in Columns(healthdata)
    /\ JoinRan =>
         \A i \in DOMAIN RawRows :
           (IsNaN(healthdata.cols["per_dem"][i]) /\ IsNaN(healthdata.cols["per_gop"][i]))
             => (RawLoc(i) \notin DOMAIN voteDict \/ IsNaN(voteDict[RawLoc(i)][2]))

\* C10: the report is closed, and holds the header and one line per entry in
\* list order, before the map selection starts; the file is open only while
\* the report loop runs; a run with an empty result list has written the
\* header alone, never completes and ends aborted at the map selection with
\* no entry selected and no map drawn.
C10_ReportClosedBeforeSelection ==
    /\ output.open => pc = "write"
    /\ ReportDone =>
         /\ ~output.open
         /\ output.lines =
              <<Header>> \o [k \in DOMAIN CORRELATIONS |-> ReportLine(CORRELATIONS[k])]
    /\ pc \in {"render", "done"} => Len(CORRELATIONS) > 0
    /\ (pc = "aborted" /\ abortAt = "select") =>
         /\ CORRELATIONS = <<>>
         /\ output.lines = <<Header>>
         /\ entry = <<>>
         /\ figure = <<>>

\* C10 witness: a run with no result that wrote and closed the report and
\* then aborted at the map selection.
C10_Witness ==
    /\ pc = "aborted"
    /\ abortAt = "select"
    /\ output = [open |-> FALSE, lines |-> <<Header>>]

====
